---- MODULE Spec2Model ----
(***************************************************************************)
(* Model of the Email-Automation pipeline:                                 *)
(*   scraper.py  - the fetcher (extract_emails_and_links_from_url) and     *)
(*                 main: bio, site, deep crawl and guessing per username   *)
(*   cleaner.py  - the reducer: clean_rows, then select_best               *)
(*   sender.py   - main: the rows selected for sending, under --limit      *)
(*   followers.py - scroll_and_extract: the scroll loop                    *)
(*                                                                         *)
(* Spec          scraper.main over runs of up to two usernames             *)
(* SpecFetch     one call of extract_emails_and_links_from_url             *)
(* SpecCleaner   cleaner.main over every list of up to MaxRows rows        *)
(* SpecSender    sender.main: the selection of the rows to send to         *)
(* SpecHandshake one call of smtp_handshake_check                          *)
(* SpecScroll    one call of followers.scroll_and_extract                  *)
(*                                                                         *)
(* Text (addresses, notes) is a sequence of tokens.  A token is a run of   *)
(* characters; the sample tokens are chosen so that a substring test of    *)
(* the source ("example.com" in s, "@" in s, "profile_error" in s) is true *)
(* of the concatenation exactly when one token is the needle: no other     *)
(* token holds an 'x', an '@' or an '_'.                                   *)
(***************************************************************************)
EXTENDS Integers, Sequences, FiniteSets, TLC

VARIABLES
    pc,          \* position of the running program in its main()
    rows,        \* cleaner.main: rows  (what load_rows returned)
    valid_rows,  \* cleaner.main: valid_rows
    final,       \* cleaner.main: final
    out_file,    \* contents of emails_clean.csv
    web,         \* fetcher: what the server answers for the url
    max_bytes,   \* fetcher: the max_bytes argument
    fetched,     \* fetcher: what the call returned and the requests it made
    users,             \* scraper.main: users (load_usernames)
    args,              \* scraper.main: args (smtp_verify, max_deep_links, max_site_bytes)
    u_idx,             \* scraper.main: position of "for u in users"
    full_name,         \* scraper.main: full_name
    ext_url,           \* scraper.main: ext_url
    pending,           \* scraper.main: emails the running "for em in ..." has yet to visit
    links,             \* scraper.main: links
    candidate_domains, \* scraper.main: candidate_domains, in insertion order
    cd_idx,            \* scraper.main: position of "for dom, link in candidate_domains.items()"
    deep_count,        \* scraper.main: deep_count
    personal_domains,  \* scraper.main: personal_domains
    guess_left,        \* scraper.main: domains "for dom in personal_domains" has yet to visit
    guess_queue,       \* scraper.main: what is left of sorted(guess_emails(full_name, dom))
    json_file,         \* contents of emails.json
    deep_log,          \* history: the second-level fetches made for the current username
    mx_ok,             \* history: domains line 396 found an MX record for, current username
    row_mark,          \* history: len(rows) when the current username was taken up
    selected,      \* sender.main: selected
    seen,          \* sender.main: seen
    r_idx,         \* sender.main: position of "for r in rows" (lines 78-89)
    limit,         \* sender.main: args.limit; followers: scroll_and_extract's limit
    only_verified, \* sender.main: args.only_verified
    hs_email,      \* smtp_handshake_check: email
    dns,           \* smtp_handshake_check: what dns.resolver.resolve(domain, "MX") does
    smtp,          \* smtp_handshake_check: what each MX host does when contacted
    mx_hosts,      \* smtp_handshake_check: mx_hosts
    host_idx,      \* smtp_handshake_check: position of "for host in mx_hosts"
    contacted,     \* history: the hosts smtplib.SMTP was called for, in order
    smtp_result,   \* smtp_handshake_check: the pair returned
    followers,     \* scroll_and_extract: followers
    stagnant,      \* scroll_and_extract: stagnant
    last_count,    \* scroll_and_extract: last_count
    idle_run       \* history: iterations since followers last grew

cvars == <<valid_rows, final, out_file>>
fvars == <<web, max_bytes, fetched>>
\* locals of scraper.main and its history
svars == <<users, args, u_idx, full_name, ext_url, pending, links, candidate_domains,
           cd_idx, deep_count, personal_domains, guess_left, guess_queue, json_file,
           deep_log, mx_ok, row_mark>>
\* locals of sender.main, smtp_handshake_check and scroll_and_extract
sendvars == <<selected, seen, r_idx, only_verified>>
hvars == <<hs_email, dns, smtp, mx_hosts, host_idx, contacted, smtp_result>>
scrollvars == <<followers, stagnant, last_count, idle_run>>
xvars == <<limit, sendvars, hvars, scrollvars>>
vars == <<pc, rows, cvars, fvars, svars, xvars>>

\* ------------------------------------------------------------------ bounds
MaxRows == 3
MaxBytes == 2
MaxDeepLinks == 2

\* scraper.main not running
ScraperIdle ==
    /\ users = <<>>
    /\ args = [smtp_verify |-> FALSE, max_deep_links |-> 0, max_site_bytes |-> 0]
    /\ u_idx = 1
    /\ full_name = <<>> /\ ext_url = ""
    /\ pending = {} /\ links = {}
    /\ candidate_domains = <<>> /\ cd_idx = 1 /\ deep_count = 0
    /\ personal_domains = {} /\ guess_left = {} /\ guess_queue = <<>>
    /\ json_file = <<>>
    /\ deep_log = <<>> /\ mx_ok = {} /\ row_mark = 0

\* sender.main not running
SenderIdle ==
    /\ selected = <<>> /\ seen = {} /\ r_idx = 1 /\ only_verified = FALSE

\* smtp_handshake_check not running
HandshakeIdle ==
    /\ hs_email = <<>> /\ dns = "raises" /\ smtp = <<>> /\ mx_hosts = <<>>
    /\ host_idx = 1 /\ contacted = <<>> /\ smtp_result = <<>>

\* scroll_and_extract not running
ScrollIdle ==
    /\ followers = {} /\ stagnant = 0 /\ last_count = 0 /\ idle_run = 0

\* ------------------------------------------------------------------ text
\* str.lower() on a token
Lower(tok) == IF tok = "Example.COM" THEN "example.com" ELSE tok

\* needle in s.lower()
InLower(needle, s) == \E i \in 1..Len(s) : Lower(s[i]) = needle

\* needle in s
In(needle, s) == \E i \in 1..Len(s) : s[i] = needle

\* s.strip() == ""
StripEmpty(s) == \A i \in 1..Len(s) : s[i] = " "

\* ------------------------------------------------------------------ scraper.py: fetcher
None == "None"

LinkSamples ==
    { "https://linktr.ee/jane", "https://instagram.com/jane",
      "https://jane.com/", "https://jane.com/contact",
      "https://shop.org/", "http://localhost/x" }
PageEmailSets == { {}, {<<"hi", "@", "gmail.com">>} }
\* a page links to nothing, to one of the sample links, or to all of them
LinkSets == { S \in SUBSET LinkSamples : Cardinality(S) <= 1 \/ S = LinkSamples }
Pages == [emails : PageEmailSets, links : LinkSets]
EmptyPage == [emails |-> {}, links |-> {}]

\* the answer to requests.head: an exception, or the Content-Length header:
\* absent, empty, not a number, or the digits of the number `length`
HeadAnswers ==
    { [raises |-> TRUE, content_length |-> "absent", length |-> 0] }
        \cup [raises : {FALSE}, content_length : {"absent", "empty", "nan"},
              length : {0}]
        \cup [raises : {FALSE}, content_length : {"digits"},
              length : 0..(MaxBytes + 1)]

\* the answer to http_get: an exception, or a status code and the parsed page
StatusCodes == {200, 404}
GetAnswers ==
    { [raises |-> TRUE, status_code |-> 200, page |-> EmptyPage] }
        \cup [raises : {FALSE}, status_code : StatusCodes \ {200}, page : {EmptyPage}]
        \cup [raises : {FALSE}, status_code : {200}, page : Pages]

WebAnswers == [head : HeadAnswers, get : GetAnswers]
NoWeb == [head |-> [raises |-> TRUE, content_length |-> "absent", length |-> 0],
          get |-> [raises |-> TRUE, status_code |-> 200, page |-> EmptyPage]]

Returned(ems, lks, note, requests) ==
    [emails |-> ems, links |-> lks, note |-> note, requests |-> requests]
NoFetch == Returned({}, {}, <<>>, <<>>)

\* extract_emails_and_links_from_url without the size check
extract_emails_and_links_from_url_no_size_check(w, mb) ==
    IF w.head.raises \/ w.head.content_length = "nan"
    THEN Returned({}, {}, <<"error">>, <<"HEAD">>)
    ELSE IF w.get.raises
         THEN Returned({}, {}, <<"error">>, <<"HEAD", "GET">>)
         ELSE IF w.get.status_code >= 400
              THEN Returned({}, {}, <<"http", w.get.status_code>>, <<"HEAD", "GET">>)
              ELSE Returned(w.get.page.emails, w.get.page.links, <<"ok">>,
                            <<"HEAD", "GET">>)

\* (emails, links, note) of extract_emails_and_links_from_url(url, max_bytes),
\* with the requests it sent, when the server answers w
extract_emails_and_links_from_url(w, mb) ==
    IF w.head.raises
    THEN Returned({}, {}, <<"error">>, <<"HEAD">>)
    ELSE IF w.head.content_length = "nan"      \* int() raises ValueError
    THEN Returned({}, {}, <<"error">>, <<"HEAD">>)
    ELSE LET size == IF w.head.content_length \in {"absent", "empty"}
                     THEN 0 ELSE w.head.length
         IN  IF size # 0 /\ size > mb
             THEN Returned({}, {}, <<"skip_large", size>>, <<"HEAD">>)
             ELSE IF w.get.raises
                  THEN Returned({}, {}, <<"error">>, <<"HEAD", "GET">>)
                  ELSE IF w.get.status_code >= 400
                       THEN Returned({}, {}, <<"http", w.get.status_code>>,
                                     <<"HEAD", "GET">>)
                       ELSE Returned(w.get.page.emails, w.get.page.links, <<"ok">>,
                                     <<"HEAD", "GET">>)

\* what a call can return to main for each value of max_bytes: the first-level
\* fetch is read for its emails and links, a second-level fetch for its emails
DeepFetchOutcomes ==
    [mb \in 0..MaxBytes |->
        { extract_emails_and_links_from_url(w, mb).emails : w \in WebAnswers }]

FetchOutcomes ==
    [mb \in 0..MaxBytes |->
        { [emails |-> extract_emails_and_links_from_url(w, mb).emails,
           links |-> extract_emails_and_links_from_url(w, mb).links] :
            w \in WebAnswers }]

FetchInit ==
    /\ pc = "fetch"
    /\ web \in WebAnswers
    /\ max_bytes \in 0..MaxBytes
    /\ fetched = NoFetch
    /\ rows = <<>> /\ valid_rows = <<>> /\ final = <<>> /\ out_file = <<>>
    /\ ScraperIdle
    /\ limit = 0 /\ SenderIdle /\ HandshakeIdle /\ ScrollIdle

FetchCall ==
    /\ pc = "fetch"
    /\ fetched' = extract_emails_and_links_from_url(web, max_bytes)
    /\ pc' = "fetch_returned"
    /\ UNCHANGED <<xvars, web, max_bytes, rows, cvars, svars>>

FetchNext == FetchCall

SpecFetch == FetchInit /\ [][FetchNext]_vars

\* ------------------------------------------------------------------ scraper.py: domains
AGGREGATOR_DOMAINS ==
    { "linktr.ee", "bio.site", "beacons.ai", "bit.ly", "campsite.bio", "msha.ke",
      "withkoji.com", "stan.store" }

SOCIAL_DOMAINS ==
    { "instagram.com", "facebook.com", "fb.com", "youtube.com", "youtu.be",
      "tiktok.com", "x.com", "twitter.com", "pinterest.com", "patreon.com",
      "substack.com" }

\* tldextract.extract(url) on the sample urls (all lower case): domain, suffix
\* and f"{domain}.{suffix}"
Ext(d, sfx, reg) == [domain |-> d, suffix |-> sfx, registered |-> reg]
tldextract(url) ==
    CASE url = "https://linktr.ee/jane"     -> Ext("linktr", "ee", "linktr.ee")
      [] url = "https://instagram.com/jane" -> Ext("instagram", "com", "instagram.com")
      [] url = "https://jane.com/"          -> Ext("jane", "com", "jane.com")
      [] url = "https://jane.com/contact"   -> Ext("jane", "com", "jane.com")
      [] url = "https://shop.org/"          -> Ext("shop", "org", "shop.org")
      [] url = "http://localhost/x"         -> Ext("localhost", "", "")
      [] OTHER                              -> Ext("", "", "")

domain_from_url(url) ==
    IF url = "" THEN None
    ELSE LET ext == tldextract(url)
         IN  IF ext.domain = "" \/ ext.suffix = "" THEN None
             ELSE ext.registered

is_aggregator_or_social_aggregators_only(domain) == domain \in AGGREGATOR_DOMAINS

is_aggregator_or_social(domain) ==
    domain \in AGGREGATOR_DOMAINS \/ domain \in SOCIAL_DOMAINS

\* ------------------------------------------------------------------ scraper.py: guess_emails
\* a full name is the sequence of its words; the sample words are alphabetic
LowerWord(w) ==
    CASE w = "Jane" -> "jane"
      [] w = "Doe" -> "doe"
      [] OTHER -> w

FirstChar(w) ==
    CASE w = "jane" -> "j"
      [] w = "doe" -> "d"
      [] OTHER -> w

\* the characters of a token, and their code points
Spell(tok) ==
    CASE tok = "jane" -> <<"j", "a", "n", "e">>
      [] tok = "doe" -> <<"d", "o", "e">>
      [] tok = "jane.com" -> <<"j", "a", "n", "e", ".", "c", "o", "m">>
      [] tok = "shop.org" -> <<"s", "h", "o", "p", ".", "o", "r", "g">>
      [] OTHER -> <<tok>>

Letters == <<"a", "b", "c", "d", "e", "f", "g", "h", "i", "j", "k", "l", "m", "n",
             "o", "p", "q", "r", "s", "t", "u", "v", "w", "x", "y", "z">>

Code(c) ==
    CASE c = "-" -> 45
      [] c = "." -> 46
      [] c = "@" -> 64
      [] c = "_" -> 95
      [] OTHER -> 96 + (CHOOSE k \in 1..Len(Letters) : Letters[k] = c)

RECURSIVE Chars(_)
Chars(s) == IF Len(s) = 0 THEN <<>> ELSE Spell(Head(s)) \o Chars(Tail(s))

\* a < b for two strings given by their characters
RECURSIVE CharsLess(_, _)
CharsLess(a, b) ==
    IF Len(b) = 0 THEN FALSE
    ELSE IF Len(a) = 0 THEN TRUE
    ELSE IF Code(Head(a)) # Code(Head(b)) THEN Code(Head(a)) < Code(Head(b))
    ELSE CharsLess(Tail(a), Tail(b))

\* sorted(S) for a set of distinct strings
RECURSIVE sorted(_)
sorted(S) ==
    IF S = {} THEN <<>>
    ELSE LET least == CHOOSE x \in S :
                          \A y \in S \ {x} : CharsLess(Chars(x), Chars(y))
         IN  <<least>> \o sorted(S \ {least})

guess_emails(name, domain) ==
    IF domain = "" \/ Len(name) = 0 THEN {}
    ELSE LET parts == [k \in 1..Len(name) |-> LowerWord(name[k])]
             first == parts[1]
             last  == IF Len(parts) > 1 THEN parts[Len(parts)] ELSE ""
             fl    == FirstChar(first)
             ll    == IF last # "" THEN FirstChar(last) ELSE ""
             bases == (IF last # ""
                       THEN { <<first, ".", last>>, <<first, last>>, <<fl, last>>,
                              <<first, ll>>, <<first, "_", last>>,
                              <<first, "-", last>> }
                       ELSE {}) \cup { <<first>> }
         IN  { b \o <<"@", domain>> : b \in bases }

\* ------------------------------------------------------------------ scraper.py: main
\* usernames.txt holds no, one or two usernames
UserLists == { <<>>, <<"u1">>, <<"u1", "u2">> }
NameSamples == { <<>>, <<"Jane", "Doe">> }
BioEmailSets == { {}, {<<"joe", "@", "foo.org">>} }
ExtUrlSamples == { "", "https://linktr.ee/jane" }

SeqUpTo(S, n) == UNION { [1..k -> S] : k \in 0..n }

\* lines 359-363 keeping every link, not one per domain
candidate_step_every_link(cands, link) ==
    LET d == domain_from_url(link)
    IN  IF d = None \/ is_aggregator_or_social(d) THEN cands
        ELSE Append(cands, [dom |-> d, link |-> link])

\* lines 359-363: one iteration of "for link in links"
candidate_step(cands, link) ==
    LET d == domain_from_url(link)
    IN  IF d = None \/ is_aggregator_or_social(d) THEN cands
        ELSE IF \E k \in 1..Len(cands) : cands[k].dom = d THEN cands
        ELSE Append(cands, [dom |-> d, link |-> link])

\* lines 357-363: the values "for link in links" can leave in candidate_domains,
\* one for each order in which the set left can be iterated
RECURSIVE candidates_from(_, _)
candidates_from(cands, left) ==
    IF left = {} THEN {cands}
    ELSE UNION { candidates_from(candidate_step(cands, link), left \ {link}) :
                    link \in left }

\* line 368 with > for >=
cap_reached_off_by_one(count, cap) == count > cap

\* line 368: deep_count >= args.max_deep_links
cap_reached(count, cap) == count >= cap

\* line 374 without the test of deep_emails
yields_personal_domain_always(deep_emails) == TRUE

\* line 374: if deep_emails
yields_personal_domain(deep_emails) == deep_emails # {}

\* line 396 ignoring the answer of mx_exists
gate_passes_always(mx) == TRUE

\* line 396: if not mx_exists(dom): continue
gate_passes(mx) == mx

Row(u, em, src) == [username |-> u, email |-> em, source |-> src]

ScraperInit ==
    /\ pc = "start"
    /\ users \in UserLists
    /\ args \in [smtp_verify : BOOLEAN, max_deep_links : 0..MaxDeepLinks,
                 max_site_bytes : {MaxBytes}]
    /\ u_idx = 1
    /\ full_name = <<>> /\ ext_url = ""
    /\ pending = {} /\ links = {}
    /\ candidate_domains = <<>> /\ cd_idx = 1 /\ deep_count = 0
    /\ personal_domains = {} /\ guess_left = {} /\ guess_queue = <<>>
    /\ json_file = <<>>
    /\ deep_log = <<>> /\ mx_ok = {} /\ row_mark = 0
    /\ rows = <<>> /\ valid_rows = <<>> /\ final = <<>> /\ out_file = <<>>
    /\ web = NoWeb /\ max_bytes = 0 /\ fetched = NoFetch
    /\ limit = 0 /\ SenderIdle /\ HandshakeIdle /\ ScrollIdle

\* lines 266-269: no usernames, main returns
NoUsernames ==
    /\ pc = "start" /\ users = <<>>
    /\ pc' = "returned"
    /\ UNCHANGED <<xvars, rows, cvars, fvars, svars>>

\* lines 271-286: rows = [], the csv is opened, the loop starts
BeginRun ==
    /\ pc = "start" /\ users # <<>>
    /\ rows' = <<>>
    /\ u_idx' = 1
    /\ pc' = "user"
    /\ UNCHANGED <<xvars, cvars, fvars, users, args, full_name, ext_url, pending, links,
                   candidate_domains, cd_idx, deep_count, personal_domains,
                   guess_left, guess_queue, json_file, deep_log, mx_ok, row_mark>>

\* lines 291-306: Profile.from_username raises; the error row; continue
ProfileFails ==
    /\ pc = "user" /\ u_idx <= Len(users)
    /\ rows' = Append(rows, Row(users[u_idx], <<>>, "error"))
    /\ u_idx' = u_idx + 1
    /\ deep_log' = <<>> /\ mx_ok' = {} /\ row_mark' = Len(rows)
    /\ UNCHANGED <<xvars, pc, cvars, fvars, users, args, full_name, ext_url, pending, links,
                   candidate_domains, cd_idx, deep_count, personal_domains,
                   guess_left, guess_queue, json_file>>

\* lines 292, 308-313: the profile is read; the loop over the bio's emails starts
ProfileLoaded ==
    /\ pc = "user" /\ u_idx <= Len(users)
    /\ \E name \in NameSamples, bio_emails \in BioEmailSets, url \in ExtUrlSamples :
          /\ full_name' = name
          /\ ext_url' = url
          /\ pending' = bio_emails
    /\ deep_log' = <<>> /\ mx_ok' = {} /\ row_mark' = Len(rows)
    /\ pc' = "bio"
    /\ UNCHANGED <<xvars, rows, cvars, fvars, users, args, u_idx, links, candidate_domains,
                   cd_idx, deep_count, personal_domains, guess_left, guess_queue,
                   json_file>>

\* lines 313-329, 338-354, 376-392: one iteration of a "for em in <set>" loop.
\* mx_exists and smtp_handshake_check answer into the columns mx, smtp_status
\* and smtp_note, which main never reads; rows keep username, email, source.
SetRow(at, src, after) ==
    /\ pc = at /\ pending # {}
    /\ \E em \in pending :
          /\ rows' = Append(rows, Row(users[u_idx], em, src))
          /\ pending' = pending \ {em}
          /\ pc' = IF after # at /\ pending \ {em} = {} THEN after ELSE at
    /\ UNCHANGED <<xvars, cvars, fvars, users, args, u_idx, full_name, ext_url, links,
                   candidate_domains, cd_idx, deep_count, personal_domains,
                   guess_left, guess_queue, json_file, deep_log, mx_ok, row_mark>>

BioRow == SetRow("bio", "bio", "bio")

\* The end of one iteration of "for u in users".  Every local of the iteration
\* but deep_count is assigned before it is read again: the model forgets them,
\* so that values nothing reads do not tell states apart.  deep_count keeps its
\* value until line 365 assigns it.
EndOfIteration ==
    /\ u_idx' = u_idx + 1
    /\ pc' = "user"
    /\ full_name' = <<>> /\ ext_url' = ""
    /\ links' = {}
    /\ candidate_domains' = <<>> /\ cd_idx' = 1
    /\ personal_domains' = {}
    /\ UNCHANGED <<xvars, rows, cvars, fvars, users, args, pending, deep_count,
                   guess_left, guess_queue, json_file, deep_log, mx_ok, row_mark>>

\* lines 331-332: if not ext_url: continue
NoExternalUrl ==
    /\ pc = "bio" /\ pending = {} /\ ext_url = ""
    /\ EndOfIteration

\* lines 335-338: the first-level fetch of ext_url
FetchSite ==
    /\ pc = "bio" /\ pending = {} /\ ext_url # ""
    /\ \E r \in FetchOutcomes[args.max_site_bytes] :
          /\ pending' = r.emails
          /\ links' = r.links
    /\ pc' = "site"
    /\ UNCHANGED <<xvars, rows, cvars, fvars, users, args, u_idx, full_name, ext_url,
                   candidate_domains, cd_idx, deep_count, personal_domains,
                   guess_left, guess_queue, json_file, deep_log, mx_ok, row_mark>>

SiteRow == SetRow("site", "site", "site")

\* lines 357-367: candidate_domains from links in their iteration order;
\* deep_count = 0, personal_domains = set(); the deep loop starts
SelectCandidates ==
    /\ pc = "site" /\ pending = {}
    /\ candidate_domains' \in candidates_from(<<>>, links)
    /\ deep_count' = 0
    /\ personal_domains' = {}
    /\ cd_idx' = 1
    /\ pc' = "deep"
    /\ UNCHANGED <<xvars, rows, cvars, fvars, users, args, u_idx, full_name, ext_url,
                   pending, links, guess_left, guess_queue, json_file, deep_log,
                   mx_ok, row_mark>>

\* lines 367-376: one second-level fetch
DeepFetch ==
    /\ pc = "deep" /\ cd_idx <= Len(candidate_domains)
    /\ ~cap_reached(deep_count, args.max_deep_links)
    /\ deep_count' = deep_count + 1
    /\ \E deep_emails \in DeepFetchOutcomes[args.max_site_bytes] :
          LET dom == candidate_domains[cd_idx].dom
              link == candidate_domains[cd_idx].link
          IN  /\ personal_domains' =
                    IF yields_personal_domain(deep_emails)
                    THEN personal_domains \cup {dom} ELSE personal_domains
              /\ pending' = deep_emails
              /\ deep_log' = Append(deep_log, [link |-> link, found |-> deep_emails # {}])
              /\ pc' = IF deep_emails = {} THEN "deep" ELSE "deep_rows"
    /\ cd_idx' = cd_idx + 1
    /\ UNCHANGED <<xvars, rows, cvars, fvars, users, args, u_idx, full_name, ext_url, links,
                   candidate_domains, guess_left, guess_queue, json_file, mx_ok,
                   row_mark>>

DeepRow == SetRow("deep_rows", "site_deep", "deep")

\* lines 368-369: the cap is reached with candidates left: break
DeepBreak ==
    /\ pc = "deep" /\ cd_idx <= Len(candidate_domains)
    /\ cap_reached(deep_count, args.max_deep_links)
    /\ guess_left' = personal_domains
    /\ pc' = "guess"
    /\ UNCHANGED <<xvars, rows, cvars, fvars, users, args, u_idx, full_name, ext_url,
                   pending, links, candidate_domains, cd_idx, deep_count,
                   personal_domains, guess_queue, json_file, deep_log, mx_ok,
                   row_mark>>

\* line 367: candidate_domains is exhausted
DeepExhausted ==
    /\ pc = "deep" /\ cd_idx > Len(candidate_domains)
    /\ guess_left' = personal_domains
    /\ pc' = "guess"
    /\ UNCHANGED <<xvars, rows, cvars, fvars, users, args, u_idx, full_name, ext_url,
                   pending, links, candidate_domains, cd_idx, deep_count,
                   personal_domains, guess_queue, json_file, deep_log, mx_ok,
                   row_mark>>

\* lines 395-398: the next personal domain and its MX check
GuessGate ==
    /\ pc = "guess" /\ guess_left # {}
    /\ \E dom \in guess_left, mx \in BOOLEAN :
          /\ guess_left' = guess_left \ {dom}
          /\ IF gate_passes(mx)
             THEN /\ guess_queue' = sorted(guess_emails(full_name, dom))
                  /\ mx_ok' = IF mx THEN mx_ok \cup {dom} ELSE mx_ok
                  /\ pc' = IF guess_emails(full_name, dom) = {}
                           THEN "guess" ELSE "guess_rows"
             ELSE UNCHANGED <<guess_queue, mx_ok, pc>>
    /\ UNCHANGED <<xvars, rows, cvars, fvars, users, args, u_idx, full_name, ext_url,
                   pending, links, candidate_domains, cd_idx, deep_count,
                   personal_domains, json_file, deep_log, row_mark>>

\* lines 398-414: one guessed address, in sorted order
GuessRow ==
    /\ pc = "guess_rows" /\ guess_queue # <<>>
    /\ rows' = Append(rows, Row(users[u_idx], Head(guess_queue), "guess_personal"))
    /\ guess_queue' = Tail(guess_queue)
    /\ pc' = IF Tail(guess_queue) = <<>> THEN "guess" ELSE "guess_rows"
    /\ UNCHANGED <<xvars, cvars, fvars, users, args, u_idx, full_name, ext_url, pending,
                   links, candidate_domains, cd_idx, deep_count, personal_domains,
                   guess_left, json_file, deep_log, mx_ok, row_mark>>

\* line 395: personal_domains is exhausted; on to the next username
GuessDone ==
    /\ pc = "guess" /\ guess_left = {}
    /\ EndOfIteration

\* lines 317, 342, 380, 402 with 165-196: smtp_handshake_check is called (smtp_verify
\* and an MX record) and raises what line 194 does not catch, such as
\* socket.gaierror; nothing in main catches it
SmtpRaises ==
    /\ args.smtp_verify
    /\ \/ pc \in {"bio", "site", "deep_rows"} /\ pending # {}
       \/ pc = "guess_rows" /\ guess_queue # <<>>
    /\ pc' = "crashed"
    /\ UNCHANGED <<xvars, rows, cvars, fvars, svars>>

\* lines 416-419: the loop is over; emails.json is written
WriteJson ==
    /\ pc = "user" /\ u_idx > Len(users)
    /\ json_file' = rows
    /\ pc' = "done"
    /\ UNCHANGED <<xvars, rows, cvars, fvars, users, args, u_idx, full_name, ext_url,
                   pending, links, candidate_domains, cd_idx, deep_count,
                   personal_domains, guess_left, guess_queue, deep_log, mx_ok,
                   row_mark>>

Next ==
    \/ NoUsernames \/ BeginRun \/ ProfileFails \/ ProfileLoaded
    \/ BioRow \/ NoExternalUrl \/ FetchSite \/ SiteRow \/ SelectCandidates
    \/ DeepFetch \/ DeepRow \/ DeepBreak \/ DeepExhausted
    \/ GuessGate \/ GuessRow \/ GuessDone \/ SmtpRaises \/ WriteJson

Init == ScraperInit

Spec == Init /\ [][Next]_vars

\* ------------------------------------------------------------------ cleaner.py
PRIORITY == [bio |-> 1, site |-> 2, site_deep |-> 3, guess_personal |-> 4]

priority_value(source) ==
    IF source \in DOMAIN PRIORITY THEN PRIORITY[source] ELSE 99

is_valid_email_no_placeholder_check(email) ==
    IF Len(email) = 0 THEN FALSE
    ELSE IF StripEmpty(email) THEN FALSE
    ELSE IF ~In("@", email) THEN FALSE
    ELSE TRUE

is_valid_email(email) ==
    IF Len(email) = 0 THEN FALSE
    ELSE IF InLower("example.com", email) THEN FALSE
    ELSE IF StripEmpty(email) THEN FALSE
    ELSE IF ~In("@", email) THEN FALSE
    ELSE TRUE

is_error_row_note_only(row) ==
    IF In("profile_error", row.smtp_note) THEN TRUE
    ELSE FALSE

is_error_row(row) ==
    IF row.source = "error" THEN TRUE
    ELSE IF In("profile_error", row.smtp_note) THEN TRUE
    ELSE FALSE

KeepRow(r) == ~is_error_row(r) /\ is_valid_email(r.email)

clean_rows(rs) == SelectSeq(rs, KeepRow)

\* one iteration of the loop of select_best; best is the dict in insertion order
select_best_step_always_append(best, row) == Append(best, row)

select_best_step_ties_replace(best, row) ==
    IF ~\E j \in 1..Len(best) : best[j].username = row.username
    THEN Append(best, row)
    ELSE LET j == CHOOSE k \in 1..Len(best) : best[k].username = row.username
         IN  IF priority_value(row.source) <= priority_value(best[j].source)
             THEN [best EXCEPT ![j] = row]
             ELSE best

select_best_step(best, row) ==
    IF ~\E j \in 1..Len(best) : best[j].username = row.username
    THEN Append(best, row)
    ELSE LET j == CHOOSE k \in 1..Len(best) : best[k].username = row.username
         IN  IF priority_value(row.source) < priority_value(best[j].source)
             THEN [best EXCEPT ![j] = row]
             ELSE best

RECURSIVE select_best_from(_, _, _)
select_best_from(best, cleaned_rows, i) ==
    IF i > Len(cleaned_rows) THEN best
    ELSE select_best_from(select_best_step(best, cleaned_rows[i]), cleaned_rows, i + 1)

select_best(cleaned_rows) == select_best_from(<<>>, cleaned_rows, 1)

\* ------------------------------------------------------------------ inputs
Sources == {"bio", "site", "site_deep", "guess_personal", "error", "manual"}

EmailOk1 == <<"joe", "@", "foo.org">>
EmailOk2 == <<"amy", "@", "foo.org">>
EmailSamples ==
    { EmailOk1, EmailOk2,
      <<>>,                                  \* ""
      <<" ">>,                               \* " "
      <<"joe">>,                             \* "joe"
      <<"joe", "@", "example.com">>,         \* "joe@example.com"
      <<"joe", "@", "Example.COM">>,         \* "joe@Example.COM"
      <<"joe", "@", "my", "example.com">>,   \* "joe@myexample.com"
      <<"joe", "@", "amy", "@", "foo.org">>  \* "joe@amy@foo.org"
    }
NoteSamples == { <<>>, <<"profile_error", ":", "ConnectionException">> }

Rows(us, srcs, ems, notes) ==
    { [username |-> u, email |-> e, source |-> s, smtp_note |-> n] :
        u \in us, e \in ems, s \in srcs, n \in notes }

\* the rows of emails.csv are drawn from four families, each a full product
Usernames == {"u1", "u2"}
RankRows    == Rows(Usernames, Sources \ {"error"}, {EmailOk1, EmailOk2}, {<<>>})
TierRows    == Rows({"u1"}, Sources,
                    {EmailOk1, <<"joe", "@", "example.com">>,
                     <<"joe", "@", "Example.COM">>}, {<<>>})
AddressRows == Rows(Usernames, {"bio"}, EmailSamples, {<<>>})
ErrorRows   == Rows(Usernames, {"error", "bio"}, {<<>>, EmailOk1}, NoteSamples)

InputLists ==
    SeqUpTo(RankRows, MaxRows) \cup SeqUpTo(TierRows, MaxRows)
        \cup SeqUpTo(AddressRows, MaxRows) \cup SeqUpTo(ErrorRows, MaxRows)

\* ------------------------------------------------------------------ cleaner.main
CleanerInit ==
    /\ pc = "load"
    /\ rows = <<>>
    /\ valid_rows = <<>>
    /\ final = <<>>
    /\ out_file = <<>>
    /\ web = NoWeb /\ max_bytes = 0 /\ fetched = NoFetch
    /\ ScraperIdle
    /\ limit = 0 /\ SenderIdle /\ HandshakeIdle /\ ScrollIdle

\* rows = load_rows()
LoadRows ==
    /\ pc = "load"
    /\ \E rs \in InputLists : rows' = rs
    /\ pc' = "clean"
    /\ UNCHANGED <<xvars, valid_rows, final, out_file, fvars, svars>>

\* valid_rows = clean_rows(rows)
CleanRows ==
    /\ pc = "clean"
    /\ valid_rows' = clean_rows(rows)
    /\ pc' = "select"
    /\ UNCHANGED <<xvars, rows, final, out_file, fvars, svars>>

\* final = select_best(valid_rows)
SelectBest ==
    /\ pc = "select"
    /\ final' = select_best(valid_rows)
    /\ pc' = "save"
    /\ UNCHANGED <<xvars, rows, valid_rows, out_file, fvars, svars>>

\* save_output(final): nothing is written when there are no rows
SaveOutput ==
    /\ pc = "save"
    /\ out_file' = IF Len(final) = 0 THEN out_file ELSE final
    /\ pc' = "cleaned"
    /\ UNCHANGED <<xvars, rows, valid_rows, final, fvars, svars>>

CleanerNext == LoadRows \/ CleanRows \/ SelectBest \/ SaveOutput

SpecCleaner == CleanerInit /\ [][CleanerNext]_vars

\* ------------------------------------------------------------------ reducer properties
\* final holds the reducer's output from here on
Reduced == pc \in {"save", "cleaned"}

UsernamesOf(rs) == { rs[i].username : i \in 1..Len(rs) }
RowsOf(rs) == { rs[i] : i \in 1..Len(rs) }

\* the rank the priority table gives a source tier; unrecognized tiers come last
Rank(source) ==
    CASE source = "bio" -> 1
      [] source = "site" -> 2
      [] source = "site_deep" -> 3
      [] source = "guess_personal" -> 4
      [] OTHER -> 5

\* the index in rs of the first row of username u with the least rank
FirstOfLeastRank(rs, u) ==
    CHOOSE k \in 1..Len(rs) :
        /\ rs[k].username = u
        /\ \A m \in 1..Len(rs) :
              rs[m].username = u =>
                  /\ Rank(rs[m].source) >= Rank(rs[k].source)
                  /\ (m < k => Rank(rs[m].source) > Rank(rs[k].source))

\* number of "@" in an address
RECURSIVE CountAt(_)
CountAt(s) ==
    IF Len(s) = 0 THEN 0
    ELSE (IF Head(s) = "@" THEN 1 ELSE 0) + CountAt(Tail(s))

\* the part of an address after its last "@" (the whole of it when it has none)
RECURSIVE AddressDomain(_)
AddressDomain(s) ==
    IF ~In("@", s) THEN s
    ELSE AddressDomain(Tail(s))

OnPlaceholderDomain(email) ==
    LET d == AddressDomain(email)
    IN  Len(d) = 1 /\ Lower(d[1]) = "example.com"

\* C1: the reducer's output holds at most one row per username.
C1_OneRowPerUsername ==
    Reduced =>
        \A i, j \in 1..Len(final) :
            final[i].username = final[j].username => i = j

\* two kept rows of one username went in, one row came out
C1_Witness ==
    /\ pc = "cleaned"
    /\ \E i, j \in 1..Len(valid_rows) :
          i < j /\ valid_rows[i].username = valid_rows[j].username
    /\ Len(final) = 1

\* C2: for every username, the row kept is the first row, in input order, among
\* that username's rows of least rank (bio < site < site_deep < guess_personal <
\* anything else): the least rank wins whatever the order, ties keep the earlier.
C2_FirstOfLeastRankKept ==
    Reduced =>
        \A u \in UsernamesOf(valid_rows) :
            { final[j] : j \in { k \in 1..Len(final) : final[k].username = u } }
                = { valid_rows[FirstOfLeastRank(valid_rows, u)] }

\* a later row of lower rank replaced the first one, and a still later row of
\* that same rank, a different row, did not replace it
C2_Witness ==
    /\ pc = "cleaned"
    /\ \E i, j, k \in 1..Len(valid_rows) :
          /\ i < j /\ j < k
          /\ valid_rows[i].username = valid_rows[j].username
          /\ valid_rows[j].username = valid_rows[k].username
          /\ Rank(valid_rows[j].source) < Rank(valid_rows[i].source)
          /\ Rank(valid_rows[k].source) = Rank(valid_rows[j].source)
          /\ valid_rows[k] # valid_rows[j]
          /\ final = <<valid_rows[j]>>

\* C3: the usernames of the output are exactly the usernames with at least one
\* input row that is no error placeholder and whose address is non-empty, holds
\* an "@" and is not on the domain example.com; every output row is an input row.
C3_IdentitiesPreserved ==
    Reduced =>
        /\ UsernamesOf(final) =
              { rows[i].username : i \in
                  { k \in 1..Len(rows) :
                      /\ ~is_error_row(rows[k])
                      /\ Len(rows[k].email) > 0
                      /\ In("@", rows[k].email)
                      /\ ~OnPlaceholderDomain(rows[k].email) } }
        /\ RowsOf(final) \subseteq RowsOf(rows)

\* C4: no row whose source is "error" is in the reducer's output.
C4_ErrorRowsDropped ==
    Reduced => \A j \in 1..Len(final) : final[j].source # "error"

\* an error row with an address that would pass, the only row of its username
C4_Witness ==
    /\ pc = "cleaned"
    /\ \E i \in 1..Len(rows) :
          /\ rows[i].source = "error"
          /\ rows[i].email = EmailOk1
          /\ rows[i].smtp_note = <<>>
          /\ \A m \in 1..Len(rows) : rows[m].username = rows[i].username => m = i
          /\ rows[i].username \notin UsernamesOf(final)

\* C5: every output row's address is non-empty, holds exactly one "@" and is
\* not on the domain example.com.
C5_OutputAddressesValid ==
    Reduced =>
        \A j \in 1..Len(final) :
            /\ Len(final[j].email) > 0
            /\ CountAt(final[j].email) = 1
            /\ ~OnPlaceholderDomain(final[j].email)

\* C6: no output row's address is on the domain example.com, whatever its tier.
C6_PlaceholderDomainExcluded ==
    Reduced => \A j \in 1..Len(final) : ~OnPlaceholderDomain(final[j].email)

\* a guessed address on the placeholder domain went in beside a row that was kept
C6_Witness ==
    /\ pc = "cleaned"
    /\ \E i, m \in 1..Len(rows) :
          /\ rows[i].source = "guess_personal"
          /\ rows[i].email = <<"joe", "@", "Example.COM">>
          /\ rows[m].username = rows[i].username
          /\ rows[m].source = "manual"
          /\ final = <<rows[m]>>

\* ------------------------------------------------------------------ fetcher properties
\* the numeric Content-Length the size probe advertised, when there is one
Advertised(w) ==
    IF ~w.head.raises /\ w.head.content_length = "digits"
    THEN w.head.length ELSE 0

\* C10: when the size probe advertises a Content-Length above max_bytes, the
\* call returns no emails, no links and skip_large:<size>, and sends no GET.
C10_SizeCapEnforced ==
    (pc = "fetch_returned" /\ ~web.head.raises /\ Advertised(web) > max_bytes) =>
        /\ fetched.emails = {}
        /\ fetched.links = {}
        /\ fetched.note = <<"skip_large", Advertised(web)>>
        /\ fetched.requests = <<"HEAD">>

\* an oversized page whose GET would have answered 200 with emails and links
C10_Witness ==
    /\ pc = "fetch_returned"
    /\ ~web.head.raises
    /\ Advertised(web) = max_bytes + 1
    /\ ~web.get.raises /\ web.get.status_code = 200
    /\ web.get.page.emails # {} /\ web.get.page.links # {}
    /\ fetched.requests = <<"HEAD">>

\* ------------------------------------------------------------------ crawler properties
\* the rows main wrote for the username it is processing, or has just processed
CurrentRows == { rows[i] : i \in (row_mark + 1)..Len(rows) }

NoiseDomains == AGGREGATOR_DOMAINS \cup SOCIAL_DOMAINS

\* C7: a guess_personal row for domain d is written only after, for the same
\* username, the second-level fetch of d's link returned an email and an MX
\* check of d succeeded.
C7_GuessGated ==
    \A r \in CurrentRows :
        r.source = "guess_personal" =>
            LET d == AddressDomain(r.email)
            IN  /\ \E k \in 1..Len(deep_log) :
                      /\ deep_log[k].found
                      /\ <<domain_from_url(deep_log[k].link)>> = d
                /\ \E m \in mx_ok : <<m>> = d

\* two domains were fetched and both checked for guessing; only one was guessed on
C7_Witness ==
    /\ pc = "guess" /\ guess_left = {}
    /\ Len(deep_log) = 2
    /\ \E k \in 1..2 : ~deep_log[k].found
    /\ \E r \in CurrentRows : r.source = "guess_personal"
    /\ u_idx = 2

\* C8: no second-level fetch goes to a link on an aggregator or social domain,
\* and no guess_personal row has an address on such a domain.
C8_NoiseDomainsExcluded ==
    /\ \A k \in 1..Len(deep_log) :
          domain_from_url(deep_log[k].link) \notin NoiseDomains
    /\ \A i \in 1..Len(rows) :
          rows[i].source = "guess_personal" =>
              LET d == AddressDomain(rows[i].email)
              IN  ~(Len(d) = 1 /\ d[1] \in NoiseDomains)

\* the page linked to an aggregator and to a social site; the crawl fetched the
\* two other domains and guessed on one
C8_Witness ==
    /\ "https://linktr.ee/jane" \in links
    /\ "https://instagram.com/jane" \in links
    /\ Len(deep_log) = 2
    /\ \E r \in CurrentRows : r.source = "guess_personal"

\* C9: for each username at most max_deep_links second-level fetches are made;
\* with a cap of 0 there is none.
C9_DeepFetchesCapped == Len(deep_log) <= args.max_deep_links

\* the second username: the cap stopped the loop with a candidate left, after
\* the first username had its own second-level fetch
C9_Witness ==
    /\ pc = "guess"
    /\ u_idx = 2
    /\ args.max_deep_links = 1
    /\ Len(deep_log) = 1
    /\ cd_idx <= Len(candidate_domains)
    /\ \E i \in 1..row_mark : rows[i].source = "site_deep"

\* ------------------------------------------------------------------ run properties
\* C11: no failure of a per-candidate step (profile, page fetch, MX lookup, SMTP
\* handshake) ends the run: the run is never left before the loop over the
\* usernames is over and emails.json is written.
C11_NoStepFailureEndsTheRun == pc # "crashed"

\* ------------------------------------------------------------------ sender.py
MaxCsv == 3
MaxLimit == 2

\* str.lower() on an address of the csv
EmailLower(e) == IF e = "Joe@Foo.org" THEN "joe@foo.org" ELSE e

\* rows of the input csv: the columns lines 71-83 read.  "  " is a blank cell.
CsvRow(e, m, st) == [email |-> e, mx |-> m, smtp_status |-> st]

CsvRows ==
    { CsvRow("joe@foo.org", "True", "accepted"),
      CsvRow("Joe@Foo.org", "True", "unknown"),
      CsvRow("amy@bar.org", "True", "accepted"),
      CsvRow("amy@bar.org", "False", ""),
      CsvRow("bob@baz.org", "True", "refused"),
      CsvRow("  ", "", "") }

CsvLists == SeqUpTo(CsvRows, MaxCsv)

\* --limit is type=int: argparse takes any integer, negative ones too
Limits == -1..MaxLimit

\* lines 70-74: rows with an empty or blank email are not read
HasEmail(r) == r.email # "  "

\* lines 82-83
mx_true(r) == r.mx = "True"
smtp_ok(r) == r.smtp_status \in {"accepted", "unknown"}

\* lines 80-85: the row is passed over
Skipped(r, sn, ov) ==
    \/ EmailLower(r.email) \in sn
    \/ ov /\ ~(mx_true(r) /\ smtp_ok(r))

SenderInit ==
    /\ pc = "send_start"
    /\ limit \in Limits
    /\ only_verified \in BOOLEAN
    /\ rows = <<>>
    /\ selected = <<>> /\ seen = {} /\ r_idx = 1
    /\ valid_rows = <<>> /\ final = <<>> /\ out_file = <<>>
    /\ web = NoWeb /\ max_bytes = 0 /\ fetched = NoFetch
    /\ ScraperIdle /\ HandshakeIdle /\ ScrollIdle

\* lines 66-77: the csv is read; selected, seen = [], set()
ReadCsv ==
    /\ pc = "send_start"
    /\ \E csv \in CsvLists : rows' = SelectSeq(csv, HasEmail)
    /\ selected' = <<>> /\ seen' = {} /\ r_idx' = 1
    /\ pc' = "select_rows"
    /\ UNCHANGED <<limit, only_verified, cvars, fvars, svars, hvars, scrollvars>>

\* lines 79-85: one iteration of "for r in rows" that reaches a continue
SkipRow ==
    /\ pc = "select_rows" /\ r_idx <= Len(rows)
    /\ Skipped(rows[r_idx], seen, only_verified)
    /\ r_idx' = r_idx + 1
    /\ UNCHANGED <<pc, rows, selected, seen, limit, only_verified, cvars, fvars,
                   svars, hvars, scrollvars>>

\* lines 79-89: one iteration that selects the row; the limit is tested after
\* the append (line 88) and breaks the loop
SelectRow ==
    /\ pc = "select_rows" /\ r_idx <= Len(rows)
    /\ ~Skipped(rows[r_idx], seen, only_verified)
    /\ seen' = seen \cup {EmailLower(rows[r_idx].email)}
    /\ selected' = Append(selected, rows[r_idx])
    /\ r_idx' = r_idx + 1
    /\ pc' = IF Len(selected') >= limit THEN "send_rows" ELSE "select_rows"
    /\ UNCHANGED <<rows, limit, only_verified, cvars, fvars, svars, hvars,
                   scrollvars>>

\* "for r in rows" is exhausted
SelectExhausted ==
    /\ pc = "select_rows" /\ r_idx > Len(rows)
    /\ pc' = "send_rows"
    /\ UNCHANGED <<rows, xvars, cvars, fvars, svars>>

\* lines 91-125: one message is sent (or logged, with --dry-run) to every row of
\* selected, and the log is saved
SendAll ==
    /\ pc = "send_rows"
    /\ pc' = "sent"
    /\ UNCHANGED <<rows, xvars, cvars, fvars, svars>>

SenderNext == ReadCsv \/ SkipRow \/ SelectRow \/ SelectExhausted \/ SendAll

SpecSender == SenderInit /\ [][SenderNext]_vars

\* ------------------------------------------------------------------ sender properties
\* C12: the sender sends to at most --limit recipients in one run: for every
\* csv and every limit from 0 up, len(selected) is no greater than the limit.
C12_SelectedWithinLimit ==
    (limit >= 0 /\ pc \in {"select_rows", "send_rows", "sent"})
        => Len(selected) <= limit

\* ------------------------------------------------------------------ candidate selection
\* candidate_domains holds the selection for the current username from here on
Selected == pc \in {"deep", "deep_rows", "guess", "guess_rows"}

\* the domains of the links that can be deep-crawled
CrawlableDomains ==
    { domain_from_url(l) : l \in links } \ (NoiseDomains \cup {None})

\* C13: the selection keeps exactly one link per distinct non-aggregator,
\* non-social registrable domain among the links, an entry once made is kept
\* whatever link is iterated next (the first link seen stays the
\* representative), at most one second-level fetch is made per domain for a
\* username, and no link whose domain cannot be determined is fetched.
C13_OneRepresentativePerDomain ==
    /\ Selected =>
          /\ \A d \in CrawlableDomains :
                Cardinality({ k \in 1..Len(candidate_domains) :
                                candidate_domains[k].dom = d }) = 1
          /\ \A k \in 1..Len(candidate_domains) :
                /\ candidate_domains[k].dom \in CrawlableDomains
                /\ candidate_domains[k].link \in links
                /\ domain_from_url(candidate_domains[k].link) = candidate_domains[k].dom
    /\ \A l \in LinkSamples :
          SubSeq(candidate_step(candidate_domains, l), 1, Len(candidate_domains))
              = candidate_domains
    /\ \A i, j \in 1..Len(deep_log) :
          i # j => domain_from_url(deep_log[i].link) # domain_from_url(deep_log[j].link)
    /\ \A k \in 1..Len(deep_log) : domain_from_url(deep_log[k].link) # None

\* the page linked to two pages of jane.com, to shop.org and to a host with no
\* registrable domain; the cap allowed two fetches, one went to jane.com and
\* one to shop.org
C13_Witness ==
    /\ pc = "guess"
    /\ {"https://jane.com/", "https://jane.com/contact", "http://localhost/x"}
          \subseteq links
    /\ args.max_deep_links = 2
    /\ Len(deep_log) = 2
    /\ { domain_from_url(deep_log[k].link) : k \in 1..2 } = {"jane.com", "shop.org"}

\* ------------------------------------------------------------------ scraper.py: smtp_handshake_check
MaxHosts == 3

\* the hosts an MX answer can list, in the order of the answer
HostNames == <<"mx1", "mx2", "mx3", "mx4", "mx5">>

\* reply codes of RCPT TO, with the ends of the 2xx and 5xx ranges
ReplyCodes == {200, 299, 354, 451, 500, 599}

\* what lines 194-195 catch, and an OSError they do not (socket.gaierror for a
\* host name that does not resolve, "Network is unreachable", "No route to host")
CaughtErrors == {"SMTPException", "socket.timeout", "ConnectionError"}
UncaughtErrors == {"socket.gaierror"}

\* what a host does when contacted: it answers RCPT TO with a code, or the
\* session raises
Reply(c) == [raises |-> "", code |-> c]
Raises(e) == [raises |-> e, code |-> 0]
HostBehaviours ==
    { Reply(c) : c \in ReplyCodes } \cup { Raises(e) : e \in CaughtErrors \cup UncaughtErrors }

\* dns.resolver.resolve(domain, "MX"): an exception, or a non-empty answer
DnsRaises == [raises |-> TRUE, hosts |-> <<>>]
DnsAnswers ==
    {DnsRaises} \cup
    { [raises |-> FALSE, hosts |-> SubSeq(HostNames, 1, n)] : n \in 1..MaxHosts }

HandshakeEmails == { <<"joe", "@", "foo.org">>, <<"joe">> }

Result(status, note) == [status |-> status, note |-> note]
NoResult == Result("", <<>>)

\* lines 188-193: what the reply code of RCPT TO makes the function return
rcpt_result(host, code) ==
    IF 200 <= code /\ code < 300 THEN Result("accepted", <<host>>)
    ELSE IF 500 <= code /\ code < 600 THEN Result("refused", <<host, ":", ToString(code)>>)
    ELSE Result("unknown", <<host, ":", ToString(code)>>)

HandshakeInit ==
    /\ pc = "hs_split"
    /\ hs_email \in HandshakeEmails
    /\ dns \in DnsAnswers
    /\ smtp \in [1..Len(dns.hosts) -> HostBehaviours]
    /\ mx_hosts = <<>> /\ host_idx = 1 /\ contacted = <<>>
    /\ smtp_result = NoResult
    /\ rows = <<>> /\ valid_rows = <<>> /\ final = <<>> /\ out_file = <<>>
    /\ web = NoWeb /\ max_bytes = 0 /\ fetched = NoFetch
    /\ limit = 0
    /\ ScraperIdle /\ SenderIdle /\ ScrollIdle

\* lines 172-175: email.split("@", 1) gives one part
BadEmail ==
    /\ pc = "hs_split" /\ ~In("@", hs_email)
    /\ smtp_result' = Result("unknown", <<"bad_email">>)
    /\ pc' = "hs_returned"
    /\ UNCHANGED <<rows, cvars, fvars, svars, limit, sendvars, scrollvars,
                   hs_email, dns, smtp, mx_hosts, host_idx, contacted>>

\* lines 176-180: the MX lookup raises
NoMx ==
    /\ pc = "hs_split" /\ In("@", hs_email) /\ dns.raises
    /\ smtp_result' = Result("unknown", <<"no_mx">>)
    /\ pc' = "hs_returned"
    /\ UNCHANGED <<rows, cvars, fvars, svars, limit, sendvars, scrollvars,
                   hs_email, dns, smtp, mx_hosts, host_idx, contacted>>

\* lines 176-178: mx_hosts is the answer
Resolve ==
    /\ pc = "hs_split" /\ In("@", hs_email) /\ ~dns.raises
    /\ mx_hosts' = dns.hosts
    /\ host_idx' = 1
    /\ pc' = "hs_hosts"
    /\ UNCHANGED <<rows, cvars, fvars, svars, limit, sendvars, scrollvars,
                   hs_email, dns, smtp, contacted, smtp_result>>

\* lines 182-195: one iteration of "for host in mx_hosts": the host is
\* contacted; a reply to RCPT TO returns, a caught error goes on to the next
\* host, any other error leaves the function
TryHost ==
    /\ pc = "hs_hosts" /\ host_idx <= Len(mx_hosts)
    /\ contacted' = Append(contacted, mx_hosts[host_idx])
    /\ host_idx' = host_idx + 1
    /\ LET b == smtp[host_idx]
       IN  IF b.raises = ""
           THEN /\ smtp_result' = rcpt_result(mx_hosts[host_idx], b.code)
                /\ pc' = "hs_returned"
           ELSE /\ smtp_result' = smtp_result
                /\ pc' = IF b.raises \in CaughtErrors THEN "hs_hosts" ELSE "hs_raised"
    /\ UNCHANGED <<rows, cvars, fvars, svars, limit, sendvars, scrollvars,
                   hs_email, dns, smtp, mx_hosts>>

\* line 196: the hosts are exhausted
MxUnreachable ==
    /\ pc = "hs_hosts" /\ host_idx > Len(mx_hosts)
    /\ smtp_result' = Result("unknown", <<"mx_unreachable">>)
    /\ pc' = "hs_returned"
    /\ UNCHANGED <<rows, cvars, fvars, svars, limit, sendvars, scrollvars,
                   hs_email, dns, smtp, mx_hosts, host_idx, contacted>>

HandshakeNext == BadEmail \/ NoMx \/ Resolve \/ TryHost \/ MxUnreachable

SpecHandshake == HandshakeInit /\ [][HandshakeNext]_vars

\* ------------------------------------------------------------------ handshake properties
\* the hosts that answer RCPT TO, by position in mx_hosts
Answering == { k \in 1..Len(mx_hosts) : smtp[k].raises = "" }

\* the first host that answers
FirstAnswering == CHOOSE k \in Answering : \A j \in Answering : k <= j

\* the hosts are contacted one at a time in the order of mx_hosts
ContactedInOrder ==
    /\ Len(contacted) <= Len(mx_hosts)
    /\ contacted = SubSeq(mx_hosts, 1, Len(contacted))

\* the function has returned after the MX lookup: the first host that answered
\* fixes the result and is the last one contacted; with no answer every host
\* was contacted and the result is (unknown, mx_unreachable)
ResultAsClaimed ==
    (pc = "hs_returned" /\ mx_hosts # <<>>) =>
        IF Answering = {}
        THEN /\ smtp_result = Result("unknown", <<"mx_unreachable">>)
             /\ contacted = mx_hosts
        ELSE LET k == FirstAnswering
                 host == mx_hosts[k]
                 code == smtp[k].code
             IN  /\ Len(contacted) = k
                 /\ smtp_result.note[1] = host
                 /\ (code \in 200..299) => smtp_result = Result("accepted", <<host>>)
                 /\ (code \in 500..599) => smtp_result.status = "refused"
                 /\ (code \notin 200..299 /\ code \notin 500..599)
                        => smtp_result.status = "unknown"

\* C14: the handshake tries the MX hosts one at a time in order; the first host
\* that answers RCPT TO fixes the result (2xx accepted, 5xx refused, otherwise
\* unknown, the note naming that host) and no later host is contacted; a host
\* that fails with a network error is skipped for the next one, so the
\* function never ends on such an error; if no host answers the result is
\* (unknown, mx_unreachable).
C14_FirstAnswerDecides ==
    /\ ContactedInOrder
    /\ ResultAsClaimed
    /\ pc # "hs_raised"

\* ------------------------------------------------------------------ followers.py: scroll_and_extract
MaxFollowers == 3

\* line 131: the loop gives up after this many iterations in a row without growth
StagnantLimit == 15

\* hrefs the container can show: four profile links, a post link, an empty
\* href and one without a "/"
HrefSamples ==
    { "https://www.instagram.com/amy/", "https://www.instagram.com/bob/",
      "https://www.instagram.com/cat/", "https://www.instagram.com/explore/",
      "https://www.instagram.com/p/Cx1/", "", "amy" }

\* what container.find_elements(By.TAG_NAME, "a") can show in one iteration
ContainerViews == SUBSET HrefSamples

\* line 137: "/p/" in href
IsPostLink(href) == href = "https://www.instagram.com/p/Cx1/"

IndexError == "IndexError"

\* line 140: href.split("/")[-2]
SecondLastPart(href) ==
    CASE href = "https://www.instagram.com/amy/"     -> "amy"
      [] href = "https://www.instagram.com/bob/"     -> "bob"
      [] href = "https://www.instagram.com/cat/"     -> "cat"
      [] href = "https://www.instagram.com/explore/" -> "explore"
      [] href = "https://www.instagram.com/p/Cx1/"   -> "Cx1"
      [] OTHER                                       -> IndexError

\* lines 135-144: the usernames one pass over the links adds
extracted(page) ==
    { SecondLastPart(href) : href \in { h \in page : h # "" /\ ~IsPostLink(h) } }
        \ {"", IndexError}

\* lines 153-156 with the counter never incremented
stagnation_never_counts(count, last, stag) == 0

\* lines 153-156: stagnation detection
stagnation(count, last, stag) == IF count = last THEN stag + 1 ELSE 0

\* line 131: the loop condition
loop_continues(count, lim, stag) == count < lim /\ stag < StagnantLimit

\* --limit is type=int
ScrollLimits == -1..MaxFollowers

ScrollInit ==
    /\ pc = "scroll"
    /\ limit \in ScrollLimits
    /\ followers = {} /\ stagnant = 0 /\ last_count = 0 /\ idle_run = 0
    /\ rows = <<>> /\ valid_rows = <<>> /\ final = <<>> /\ out_file = <<>>
    /\ web = NoWeb /\ max_bytes = 0 /\ fetched = NoFetch
    /\ ScraperIdle /\ SenderIdle /\ HandshakeIdle

\* lines 131-158: one iteration of the while loop
ScrollIteration ==
    /\ pc = "scroll"
    /\ loop_continues(Cardinality(followers), limit, stagnant)
    /\ \E page \in ContainerViews :
          /\ followers' = followers \cup extracted(page)
          /\ idle_run' = IF extracted(page) \subseteq followers THEN idle_run + 1 ELSE 0
    /\ stagnant' = stagnation(Cardinality(followers'), last_count, stagnant)
    /\ last_count' = Cardinality(followers')
    /\ UNCHANGED <<pc, rows, cvars, fvars, svars, limit, sendvars, hvars>>

\* lines 134-149: a call on the browser raises (a link went stale, the window
\* was closed); nothing in the function catches it
ScrollRaises ==
    /\ pc = "scroll"
    /\ loop_continues(Cardinality(followers), limit, stagnant)
    /\ pc' = "scroll_raised"
    /\ UNCHANGED <<rows, cvars, fvars, svars, xvars>>

\* lines 131, 160-161: the loop condition is false; the function returns
ScrollReturn ==
    /\ pc = "scroll"
    /\ ~loop_continues(Cardinality(followers), limit, stagnant)
    /\ pc' = "scroll_returned"
    /\ UNCHANGED <<rows, cvars, fvars, svars, xvars>>

ScrollNext == ScrollIteration \/ ScrollRaises \/ ScrollReturn

\* the function is sequential code: while it has a step to take it takes one
SpecScroll == ScrollInit /\ [][ScrollNext]_vars /\ WF_vars(ScrollNext)

\* ------------------------------------------------------------------ scroll properties
ScrollEnded == pc \in {"scroll_returned", "scroll_raised"}

\* C15: scroll_and_extract always terminates, whatever the container shows;
\* followers only grows; each iteration adds a new username or increments
\* stagnant; stagnant counts the iterations in a row that added nothing; an
\* iteration starts only while followers holds fewer than limit usernames and
\* fewer than 15 iterations in a row added nothing, and the function returns
\* only when one of the two has happened.
C15_ScrollTerminates ==
    /\ [][followers \subseteq followers']_vars
    /\ [][(pc = "scroll" /\ pc' = "scroll") =>
             \/ followers' # followers /\ stagnant' = 0
             \/ followers' = followers /\ stagnant' = stagnant + 1]_vars
    /\ [](stagnant = idle_run)
    /\ [][(pc = "scroll" /\ pc' = "scroll") =>
             Cardinality(followers) < limit /\ idle_run < StagnantLimit]_vars
    /\ [](pc = "scroll_returned" =>
             Cardinality(followers) >= limit \/ idle_run >= StagnantLimit)
    /\ <>ScrollEnded

\* the container showed two usernames and then nothing new for 15 iterations:
\* the function returned short of the limit
C15_Witness ==
    /\ pc = "scroll_returned"
    /\ Cardinality(followers) = 2
    /\ limit = 3
    /\ stagnant = StagnantLimit

====
